---- MODULE Spec2Model ----
(***************************************************************************)
(* A model of bevy_pong (src/src/main.rs): the entities spawned at Startup *)
(* and the five systems of the Update schedule, run once per frame in any  *)
(* order the schedule's .after() constraints permit.                       *)
(*                                                                         *)
(* All f32 quantities of the program are integers here: the window         *)
(* dimensions are drawn from even integers, so every position, size and    *)
(* bound the program computes is an integer far below 2^24 and the f32     *)
(* arithmetic is exact.                                                    *)
(***************************************************************************)
EXTENDS Integers, FiniteSets, Sequences, TLC

\* ---------------------------------------------------------------- constants
BALL_WIDTH == 10
BALL_SPEED == 5
PADDLE_SPEED == 1
PADDLE_WIDTH == 10
PADDLE_HEIGHT == 50
GUTTER_HEIGHT == 20
\* `let padding = 50.;` of spawn_paddles
padding == 50

\* ------------------------------------------------------------------- bounds
\* The window sizes the model draws from (logical pixels, even).
Widths == {130, 134}
Heights == {96, 100}
\* The ball leaves the arena for good after a miss; the model follows it
\* this far from the origin along x and no further.
MaxBallX == 40
\* How far the ball is followed in the 800 x 600 scenario with Up held.
MaxBallXUpHeld == 1400
\* The worlds handle_collisions is applied to as a function of the world:
\* the ball anywhere with |x| <= CollideMaxX and -BALL_WIDTH \div 2 <= y <=
\* CollideMaxY, the Player paddle at 0 <= y <= CollidePaddleY.
CollideMaxX == 22
CollideMaxY == 45
CollidePaddleY == 2

\* ----------------------------------------------------------------- helpers
Vec2(x, y) == [x |-> x, y |-> y]

Abs(n) == IF n < 0 THEN -n ELSE n

\* Entity names, after the variables that hold them in the spawn systems.
Balls == {"ball"}
Players == {"right_paddle"}
Paddles == {"right_paddle", "left_paddle"}
Gutters == {"top_gutter", "bottom_gutter"}
Entities == Balls \cup Paddles \cup Gutters

KeyCodes == {"Up", "Down"}

\* The systems of the Update schedule.
Systems == {"move_ball", "handle_player_input", "move_paddles",
            "project_positions", "handle_collisions"}

VARIABLES
    window,          \* the primary window's resolution [width, height]
    keyboard_input,  \* the set of keys pressed during this frame
    ents,            \* the entities that exist
    position,        \* Position component, per entity
    shape,           \* Shape component, per entity
    velocity,        \* Velocity component, per entity that has one
    transform,       \* Transform.translation (x, y), per entity
    done             \* the systems that have run in the current frame

vars == <<window, keyboard_input, ents, position, shape, velocity, transform, done>>

\* ----------------------------------------------------------------- bundles
BallBundle(x, y) ==
    [shape |-> Vec2(BALL_WIDTH, BALL_WIDTH),
     velocity |-> Vec2(x, y),
     position |-> Vec2(0, 0)]

PaddleBundle(x, y) ==
    [shape |-> Vec2(PADDLE_WIDTH, PADDLE_HEIGHT),
     velocity |-> Vec2(0, 0),
     position |-> Vec2(x, y)]

GutterBundle(x, y, w) ==
    [shape |-> Vec2(w, GUTTER_HEIGHT),
     position |-> Vec2(x, y)]

\* ----------------------------------------------------------------- startup
\* spawn_ball serving the ball diagonally.
spawn_ball_diagonal == [ball |-> BallBundle(1, 1)]

spawn_ball == [ball |-> BallBundle(1, 0)]

\* spawn_paddles placing both paddles on the right-hand side.
spawn_paddles_same_side(win) ==
    LET right_paddle_x == (win.width \div 2) - padding
        left_paddle_x == (win.width \div 2) - padding
    IN  [right_paddle |-> PaddleBundle(right_paddle_x, 0),
         left_paddle |-> PaddleBundle(left_paddle_x, 0)]

spawn_paddles(win) ==
    LET right_paddle_x == (win.width \div 2) - padding
        left_paddle_x == -(win.width \div 2) + padding
    IN  [right_paddle |-> PaddleBundle(right_paddle_x, 0),
         left_paddle |-> PaddleBundle(left_paddle_x, 0)]

\* spawn_gutters centring the gutters on the window's edges.
spawn_gutters_on_edge(win) ==
    [top_gutter |-> GutterBundle(0, win.height \div 2, win.width),
     bottom_gutter |-> GutterBundle(0, -(win.height \div 2), win.width)]

spawn_gutters(win) ==
    LET top_gutter_y == (win.height \div 2) - (GUTTER_HEIGHT \div 2)
        bottom_gutter_y == -(win.height \div 2) + (GUTTER_HEIGHT \div 2)
    IN  [top_gutter |-> GutterBundle(0, top_gutter_y, win.width),
         bottom_gutter |-> GutterBundle(0, bottom_gutter_y, win.width)]

\* The world after the Startup schedule, for a window of the given size.
Spawned(win) ==
    LET b == spawn_ball
        p == spawn_paddles(win)
        g == spawn_gutters(win)
        bundle(e) == IF e \in Balls THEN b[e] ELSE IF e \in Paddles THEN p[e] ELSE g[e]
    IN  [position |-> [e \in Entities |-> bundle(e).position],
         shape |-> [e \in Entities |-> bundle(e).shape],
         velocity |-> [e \in Balls \cup Paddles |-> bundle(e).velocity]]

Startup(win) ==
    /\ window = win
    /\ ents = Entities
    /\ position = Spawned(win).position
    /\ shape = Spawned(win).shape
    /\ velocity = Spawned(win).velocity
    \* MaterialMesh2dBundle { .. ..default() }: Transform::default()
    /\ transform = [e \in Entities |-> Vec2(0, 0)]

Init ==
    /\ \E w \in Widths, h \in Heights : Startup([width |-> w, height |-> h])
    /\ keyboard_input \in SUBSET KeyCodes
    /\ done = {}

\* --------------------------------------------------------- Update schedule
\* add_systems(Update, ...): a system may run once every system it is
\* declared .after() has run in this frame; systems without an ordering
\* between them run in either order (never at the same time when their
\* component accesses conflict, so each system is one atomic step).
AfterWithoutInputOrder ==
    \* the schedule without move_paddles.after(handle_player_input)
    [s \in Systems |->
        CASE s = "project_positions" -> {"move_ball"}
          [] s = "handle_collisions" -> {"move_ball"}
          [] OTHER -> {}]

After ==
    [s \in Systems |->
        CASE s = "move_paddles" -> {"handle_player_input"}
          [] s = "project_positions" -> {"move_ball"}
          [] s = "handle_collisions" -> {"move_ball"}
          [] OTHER -> {}]

Ready(s) == s \notin done /\ After[s] \subseteq done

Ran(s) == done' = done \cup {s}

\* Query::get_single / get_single_mut: Ok exactly when one entity matches.
get_single(matching) ==
    IF Cardinality(matching) = 1 THEN CHOOSE e \in matching : TRUE ELSE "Err"

\* ---------------------------------------------------------------- collide
\* bevy::sprite::collide_aabb::collide(a_pos, a_size, b_pos, b_size): the
\* boxes are centred on the positions and extend size/2 each way.  All
\* edges are kept doubled (2*pos -+ size) so that halving loses nothing.
\* Per axis the contact is a side when a straddles exactly one edge of b,
\* with the penetration depth, and Inside (depth -infinity) otherwise; the
\* result is the y contact when |y_depth| < |x_depth| and the x contact
\* otherwise.
AxisContact(a_min, a_max, b_min, b_max, low, high) ==
    IF a_min < b_min /\ a_max > b_min /\ a_max < b_max
    THEN [side |-> low, inf |-> FALSE, depth |-> b_min - a_max]
    ELSE IF a_min > b_min /\ a_min < b_max /\ a_max > b_max
    THEN [side |-> high, inf |-> FALSE, depth |-> a_min - b_max]
    ELSE [side |-> "Inside", inf |-> TRUE, depth |-> 0]

collide(a_pos, a_size, b_pos, b_size) ==
    LET a_min == Vec2(2 * a_pos.x - a_size.x, 2 * a_pos.y - a_size.y)
        a_max == Vec2(2 * a_pos.x + a_size.x, 2 * a_pos.y + a_size.y)
        b_min == Vec2(2 * b_pos.x - b_size.x, 2 * b_pos.y - b_size.y)
        b_max == Vec2(2 * b_pos.x + b_size.x, 2 * b_pos.y + b_size.y)
        xc == AxisContact(a_min.x, a_max.x, b_min.x, b_max.x, "Left", "Right")
        yc == AxisContact(a_min.y, a_max.y, b_min.y, b_max.y, "Bottom", "Top")
        y_less == /\ ~yc.inf
                  /\ (xc.inf \/ Abs(yc.depth) < Abs(xc.depth))
    IN  IF a_min.x < b_max.x /\ a_max.x > b_min.x /\ a_min.y < b_max.y /\ a_max.y > b_min.y
        THEN (IF y_less THEN yc.side ELSE xc.side)
        ELSE "None"

\* ---------------------------------------------------------------- systems
\* Respond with the axes of Top/Bottom and Left/Right exchanged.
RespondSwapped(ball_velocity, collision) ==
    CASE collision \in {"Left", "Right"} -> Vec2(ball_velocity.x, -ball_velocity.y)
      [] collision \in {"Top", "Bottom"} -> Vec2(-ball_velocity.x, ball_velocity.y)
      [] OTHER -> ball_velocity

\* Respond reflecting the ball on an Inside contact too.
RespondInside(ball_velocity, collision) ==
    CASE collision \in {"Left", "Right", "Inside"} -> Vec2(-ball_velocity.x, ball_velocity.y)
      [] collision \in {"Top", "Bottom"} -> Vec2(ball_velocity.x, -ball_velocity.y)
      [] OTHER -> ball_velocity

\* The match of handle_collisions on one collision result.
Respond(ball_velocity, collision) ==
    CASE collision \in {"Left", "Right"} -> Vec2(-ball_velocity.x, ball_velocity.y)
      [] collision \in {"Top", "Bottom"} -> Vec2(ball_velocity.x, -ball_velocity.y)
      [] OTHER -> ball_velocity

\* The loop of handle_collisions leaving after the first response.
CollideAllOnce(ball_velocity, collisions) ==
    LET responses == SelectSeq(collisions,
                        LAMBDA c : c \in {"Left", "Right", "Top", "Bottom"})
    IN  IF responses = <<>> THEN ball_velocity
        ELSE Respond(ball_velocity, Head(responses))

\* The loop of handle_collisions over the collision results of the
\* entities of other_things, in iteration order.  The ball's Position and
\* Shape are read-only in the loop, so each entity's result is the same
\* wherever it comes in the iteration.
RECURSIVE CollideAll(_, _)
CollideAll(ball_velocity, collisions) ==
    IF collisions = <<>> THEN ball_velocity
    ELSE CollideAll(Respond(ball_velocity, Head(collisions)), Tail(collisions))

\* The collision result of the ball b against each entity of a sequence.
RECURSIVE Collisions(_, _)
Collisions(b, others) ==
    IF others = <<>> THEN <<>>
    ELSE <<collide(position[b], shape[b], position[Head(others)], shape[Head(others)])>>
             \o Collisions(b, Tail(others))

\* The orders in which a query may yield n entities: the iteration order of
\* a query is not specified, so every order is allowed.
Orders(n) == {q \in [1..n -> 1..n] : \A i, j \in 1..n : q[i] = q[j] => i = j}

\* other_things: Query<(&Position, &Shape), Without<Ball>>
other_things == <<"right_paddle", "left_paddle", "top_gutter", "bottom_gutter">>

OrdersOfOthers == Orders(Len(other_things))

handle_collisions ==
    /\ Ready("handle_collisions")
    /\ Ran("handle_collisions")
    /\ LET b == get_single(ents \cap Balls)
       IN  IF b # "Err"
           THEN \E hit \in {Collisions(b, SelectSeq(other_things, LAMBDA e : e \in ents))} :
                \E v \in {CollideAll(velocity[b], [i \in 1..Len(hit) |-> hit[q[i]]]) :
                            q \in (IF Len(hit) = Len(other_things) THEN OrdersOfOthers
                                   ELSE Orders(Len(hit)))} :
                    velocity' = [velocity EXCEPT ![b] = v]
           ELSE UNCHANGED velocity
    /\ UNCHANGED <<window, keyboard_input, ents, position, shape, transform>>

\* KeyVelocity with the two tests in the other order: Down wins over Up.
KeyVelocityDownFirst(pressed) ==
    IF "Down" \in pressed THEN -PADDLE_SPEED
    ELSE IF "Up" \in pressed THEN PADDLE_SPEED
    ELSE 0

\* The if / else if / else of handle_player_input: the new velocity.y.
KeyVelocity(pressed) ==
    IF "Up" \in pressed THEN PADDLE_SPEED
    ELSE IF "Down" \in pressed THEN -PADDLE_SPEED
    ELSE 0

\* handle_player_input without the With<Player> filter: every paddle is driven.
handle_player_input_every_paddle ==
    /\ Ready("handle_player_input")
    /\ Ran("handle_player_input")
    /\ velocity' = [e \in DOMAIN velocity |->
            IF e \in ents \cap Paddles
            THEN Vec2(velocity[e].x, KeyVelocity(keyboard_input))
            ELSE velocity[e]]
    /\ UNCHANGED <<window, keyboard_input, ents, position, shape, transform>>

handle_player_input ==
    /\ Ready("handle_player_input")
    /\ Ran("handle_player_input")
    /\ LET p == get_single(ents \cap Paddles \cap Players)
       IN  IF p # "Err"
           THEN velocity' = [velocity EXCEPT ![p].y = KeyVelocity(keyboard_input)]
           ELSE UNCHANGED velocity
    /\ UNCHANGED <<window, keyboard_input, ents, position, shape, transform>>

\* MoveBall without the speed factor.
MoveBallUnscaled(pos, vel) == Vec2(pos.x + vel.x, pos.y + vel.y)

\* MoveBall putting a ball that has left the field back on the centre.
MoveBallRespawn(pos, vel) ==
    IF Abs(pos.x) > 2 * BALL_WIDTH THEN Vec2(0, 0)
    ELSE Vec2(pos.x + vel.x * BALL_SPEED, pos.y + vel.y * BALL_SPEED)

\* position.0 += velocity.0 * BALL_SPEED
MoveBall(pos, vel) == Vec2(pos.x + vel.x * BALL_SPEED, pos.y + vel.y * BALL_SPEED)

\* move_ball, followed while the ball stays within limit of the origin on x.
move_ball_within(limit) ==
    /\ Ready("move_ball")
    /\ Ran("move_ball")
    /\ LET b == get_single(ents \cap Balls)
       IN  IF b # "Err"
           THEN /\ Abs(MoveBall(position[b], velocity[b]).x) <= limit
                /\ position' = [position EXCEPT ![b] = MoveBall(position[b], velocity[b])]
           ELSE UNCHANGED position
    /\ UNCHANGED <<window, keyboard_input, ents, shape, velocity, transform>>

move_ball == move_ball_within(MaxBallX)

\* InBounds with the bound included: `<=` for `<`.
InBoundsInclusive(y, window_height) ==
    Abs(y) <= (window_height \div 2) - GUTTER_HEIGHT - (PADDLE_HEIGHT \div 2)

\* The bound check of move_paddles on a candidate y.
InBounds(y, window_height) ==
    Abs(y) < (window_height \div 2) - GUTTER_HEIGHT - (PADDLE_HEIGHT \div 2)

\* MovePaddle clamping to the boundary instead of rejecting the move.
MovePaddleClamped(pos, vel, window_height) ==
    LET new_position == Vec2(pos.x + vel.x * PADDLE_SPEED, pos.y + vel.y * PADDLE_SPEED)
        bound == (window_height \div 2) - GUTTER_HEIGHT - (PADDLE_HEIGHT \div 2)
    IN  IF InBounds(new_position.y, window_height) THEN new_position
        ELSE Vec2(pos.x, IF new_position.y < 0 THEN -bound ELSE bound)

MovePaddle(pos, vel, window_height) ==
    LET new_position == Vec2(pos.x + vel.x * PADDLE_SPEED, pos.y + vel.y * PADDLE_SPEED)
    IN  IF InBounds(new_position.y, window_height) THEN new_position ELSE pos

\* move_paddles checking against the window height of startup (the height
\* the gutters were placed for) instead of reading the window again.
move_paddles_cached ==
    /\ Ready("move_paddles")
    /\ Ran("move_paddles")
    /\ position' = [e \in Entities |->
            IF e \in ents \cap Paddles
            THEN MovePaddle(position[e], velocity[e],
                            2 * position["top_gutter"].y + GUTTER_HEIGHT)
            ELSE position[e]]
    /\ UNCHANGED <<window, keyboard_input, ents, shape, velocity, transform>>

move_paddles ==
    /\ Ready("move_paddles")
    /\ Ran("move_paddles")
    /\ position' = [e \in Entities |->
            IF e \in ents \cap Paddles
            THEN MovePaddle(position[e], velocity[e], window.height)
            ELSE position[e]]
    /\ UNCHANGED <<window, keyboard_input, ents, shape, velocity, transform>>

project_positions ==
    /\ Ready("project_positions")
    /\ Ran("project_positions")
    /\ transform' = [e \in Entities |-> IF e \in ents THEN position[e] ELSE transform[e]]
    /\ UNCHANGED <<window, keyboard_input, ents, position, shape, velocity>>

\* The next frame: every system of Update has run; the keyboard state the
\* systems of the new frame read is whatever the player holds by then.
Frame ==
    /\ done = Systems
    /\ done' = {}
    /\ keyboard_input' \in SUBSET KeyCodes
    /\ UNCHANGED <<window, ents, position, shape, velocity, transform>>

Next ==
    \/ move_ball
    \/ handle_player_input
    \/ move_paddles
    \/ project_positions
    \/ handle_collisions
    \/ Frame

Spec == Init /\ [][Next]_vars

\* ------------------------------------------------------- a resizable window
\* Between two frames the window may be resized: its resolution changes and
\* nothing else does (no system of the program reacts to a resize).
Resize ==
    /\ done = {}
    /\ \E w \in Widths, h \in Heights :
            /\ [width |-> w, height |-> h] # window
            /\ window' = [width |-> w, height |-> h]
    /\ UNCHANGED <<keyboard_input, ents, position, shape, velocity, transform, done>>

NextResize ==
    \/ Next
    \/ Resize

SpecResize == Init /\ [][NextResize]_vars

\* ------------------------------------------- handle_collisions as a function
\* handle_collisions applied once to a world with the ball placed anywhere
\* around the right paddle, the left paddle and the top gutter, with any
\* velocity of unit components, after move_ball has run.
CollideWindow == [width |-> 130, height |-> 96]

BallVelocities == {Vec2(1, 0), Vec2(1, 1), Vec2(1, -1), Vec2(-1, 1), Vec2(-1, -1)}

InitCollide ==
    /\ window = CollideWindow
    /\ ents = Entities
    /\ shape = Spawned(CollideWindow).shape
    /\ \E bx \in -CollideMaxX..CollideMaxX, by \in -(BALL_WIDTH \div 2)..CollideMaxY,
          py \in 0..CollidePaddleY :
            position = [Spawned(CollideWindow).position EXCEPT
                            !["ball"] = Vec2(bx, by), !["right_paddle"].y = py]
    /\ \E v \in BallVelocities :
            velocity = [Spawned(CollideWindow).velocity EXCEPT !["ball"] = v]
    /\ transform = [e \in Entities |-> Vec2(0, 0)]
    /\ keyboard_input = {}
    /\ done = {"move_ball"}

SpecCollide == InitCollide /\ [][handle_collisions]_vars

\* ------------------------------------------------------ Up held, 800 x 600
\* The end-to-end scenario: an 800 x 600 window, the default spawns, and Up
\* held in every frame.
UpHeldWindow == [width |-> 800, height |-> 600]

InitUpHeld ==
    /\ Startup(UpHeldWindow)
    /\ keyboard_input = {"Up"}
    /\ done = {}

FrameUpHeld ==
    /\ done = Systems
    /\ done' = {}
    /\ keyboard_input' = {"Up"}
    /\ UNCHANGED <<window, ents, position, shape, velocity, transform>>

NextUpHeld ==
    \/ move_ball_within(MaxBallXUpHeld)
    \/ handle_player_input
    \/ move_paddles
    \/ project_positions
    \/ handle_collisions
    \/ FrameUpHeld

SpecUpHeld == InitUpHeld /\ [][NextUpHeld]_vars

\* ------------------------------------------------------ missing singletons
\* The systems run on worlds in which the Ball, the Player paddle or both
\* were never spawned; the other entities are as spawned.
MissingWindow == [width |-> 130, height |-> 96]

MissingWorlds == {Entities \ Balls, Entities \ Players, Entities \ (Balls \cup Players)}

InitMissing ==
    /\ window = MissingWindow
    /\ ents \in MissingWorlds
    /\ position = Spawned(MissingWindow).position
    /\ shape = Spawned(MissingWindow).shape
    /\ velocity = Spawned(MissingWindow).velocity
    /\ transform = [e \in Entities |-> Vec2(0, 0)]
    /\ keyboard_input \in SUBSET KeyCodes
    /\ done = {}

SpecMissing == InitMissing /\ [][Next]_vars

\* ------------------------------------------------------------ a tall arena
\* A window high enough for the Player paddle to leave the ball's path
\* (|y| >= 30 takes a paddle bound above 30, a height above 150).
TallWindow == [width |-> 130, height |-> 152]

InitTall ==
    /\ Startup(TallWindow)
    /\ keyboard_input \in SUBSET KeyCodes
    /\ done = {}

SpecTall == InitTall /\ [][Next]_vars

\* ------------------------------------------------------------------ claims
\* A step in which system s runs.
StepOf(s) == s \notin done /\ done' = done \cup {s}

\* Twice the paddle bound windowHeight/2 - GUTTER_HEIGHT - PADDLE_HEIGHT/2.
Bound2(window_height) == window_height - 2 * GUTTER_HEIGHT - PADDLE_HEIGHT

\* The contact of the ball with entity o, as handle_collisions classifies it.
Contact(o) == collide(position["ball"], shape["ball"], position[o], shape[o])

\* C1: with the window height fixed and a positive bound, every paddle's y
\* satisfies |y| < H/2 - GUTTER_HEIGHT - PADDLE_HEIGHT/2 (strictly) in every
\* reachable state.
C1_PaddleStrictlyBetweenGutters ==
    Bound2(window.height) > 0 =>
        \A p \in Paddles : 2 * Abs(position[p].y) < Bound2(window.height)

\* The Player paddle stands on the topmost legal y with upward velocity after
\* move_paddles has run.
C1_Witness ==
    /\ "move_paddles" \in done
    /\ velocity["right_paddle"].y = 1
    /\ position["right_paddle"].y > 0
    /\ 2 * (position["right_paddle"].y + 1) >= Bound2(window.height)

\* C2: move_paddles rejects and does not clamp: a paddle whose candidate
\* position + velocity * PADDLE_SPEED has |y| >= the bound of the current
\* window height keeps its position (x and y); any other paddle's position
\* becomes exactly the candidate.
C2_RejectNotClamp ==
    [][StepOf("move_paddles") =>
        \A p \in Paddles :
            LET candidate == Vec2(position[p].x + velocity[p].x * 1,
                                  position[p].y + velocity[p].y * 1)
            IN  IF 2 * Abs(candidate.y) >= Bound2(window.height)
                THEN position'[p] = position[p]
                ELSE position'[p] = candidate]_vars

\* The Player paddle stands on the lowest legal y with downward velocity
\* after move_paddles has run.
C2_Witness ==
    /\ "move_paddles" \in done
    /\ velocity["right_paddle"].y = -1
    /\ position["right_paddle"].y < 0
    /\ 2 * Abs(position["right_paddle"].y - 1) >= Bound2(window.height)
    /\ 2 * Abs(position["right_paddle"].y) < Bound2(window.height)

\* C3: in every frame move_ball and move_paddles have both run before
\* handle_collisions runs.
C3_CollisionsAfterIntegration ==
    "handle_collisions" \in done => {"move_ball", "move_paddles"} \subseteq done

\* C4: at the end of every frame every entity's transform translation equals
\* its Position.
C4_TransformIsFinalPosition ==
    done = Systems => \A e \in ents : transform[e] = position[e]

\* C5: handle_player_input sets the Player paddle's velocity.y from the keys
\* alone: Up (with or without Down) gives +1, Down without Up gives -1,
\* neither gives 0, whatever the velocity was.
C5_VelocityFromKeys ==
    [][StepOf("handle_player_input") =>
        velocity'["right_paddle"].y =
            (IF "Up" \in keyboard_input THEN 1
             ELSE IF "Down" \in keyboard_input THEN -1
             ELSE 0)]_vars

\* handle_player_input has run with both keys held, on a paddle that had
\* been moving down.
C5_Witness ==
    /\ "handle_player_input" \in done
    /\ keyboard_input = {"Up", "Down"}
    /\ velocity["right_paddle"].y = 1
    /\ position["right_paddle"].y < 0

\* C6: every paddle's velocity.x is 0 and its position.x is its spawn value;
\* the paddle without Player keeps velocity (0, 0) and its spawn position.
C6_InputMovesOnlyPlayerVertically ==
    /\ \A p \in Paddles : velocity[p].x = 0
    /\ position["right_paddle"].x = (window.width \div 2) - 50
    /\ position["left_paddle"] = Vec2(-(window.width \div 2) + 50, 0)
    /\ velocity["left_paddle"] = Vec2(0, 0)

\* A frame has ended with the Player paddle moving and away from its spawn y.
C6_Witness ==
    /\ done = Systems
    /\ velocity["right_paddle"].y # 0
    /\ position["right_paddle"].y # 0

\* C7: handle_collisions changes nothing but the ball's velocity; when no
\* entity but o has a Left/Right/Top/Bottom contact, the ball's velocity
\* after the system is decided by o's contact: Left or Right negates x and
\* keeps y, Top or Bottom negates y and keeps x, Inside or none keeps both.
C7_ResponseByClassification ==
    [][StepOf("handle_collisions") =>
        /\ position' = position
        /\ shape' = shape
        /\ \A p \in Paddles : velocity'[p] = velocity[p]
        /\ \A o \in Entities \ Balls :
            (\A u \in Entities \ (Balls \cup {o}) : Contact(u) \in {"None", "Inside"}) =>
                velocity'["ball"] =
                    (CASE Contact(o) \in {"Left", "Right"} ->
                            Vec2(-velocity["ball"].x, velocity["ball"].y)
                       [] Contact(o) \in {"Top", "Bottom"} ->
                            Vec2(velocity["ball"].x, -velocity["ball"].y)
                       [] OTHER -> velocity["ball"])]_vars

\* handle_collisions has run on a ball that touches the top gutter from
\* below and nothing else.
C7_Witness ==
    /\ "handle_collisions" \in done
    /\ Contact("top_gutter") = "Bottom"
    /\ \A u \in Entities \ (Balls \cup {"top_gutter"}) : Contact(u) = "None"
    /\ velocity["ball"].y # 0

\* The ball's box lies within entity o's box on both axes (edges doubled).
Within(o) ==
    /\ 2 * position["ball"].x - shape["ball"].x >= 2 * position[o].x - shape[o].x
    /\ 2 * position["ball"].x + shape["ball"].x <= 2 * position[o].x + shape[o].x
    /\ 2 * position["ball"].y - shape["ball"].y >= 2 * position[o].y - shape[o].y
    /\ 2 * position["ball"].y + shape["ball"].y <= 2 * position[o].y + shape[o].y

\* C8: a ball whose box lies fully within another entity's box is classified
\* Inside against it, and handle_collisions leaves the ball's velocity
\* unchanged (no other entity reflecting the ball in that step).
C8_InsideNoOp ==
    [][StepOf("handle_collisions") =>
        \A o \in Entities \ Balls :
            Within(o) =>
                /\ Contact(o) = "Inside"
                /\ (\A u \in Entities \ (Balls \cup {o}) : Contact(u) \in {"None", "Inside"})
                        => velocity'["ball"] = velocity["ball"]]_vars

\* handle_collisions has run on a ball lying within the right paddle's box.
C8_Witness ==
    /\ "handle_collisions" \in done
    /\ Within("right_paddle")

\* C9: move_ball adds velocity * BALL_SPEED (5) to the ball's position, and
\* no other step changes the ball's position.
C9_BallIntegration ==
    [][IF StepOf("move_ball")
       THEN position'["ball"] = Vec2(position["ball"].x + velocity["ball"].x * 5,
                                     position["ball"].y + velocity["ball"].y * 5)
       ELSE position'["ball"] = position["ball"]]_vars

\* After the first move_ball the ball, spawned at (0, 0) with velocity
\* (1, 0), stands at (5, 0); nothing has been projected yet.
C9_Witness ==
    /\ "move_ball" \in done
    /\ "handle_collisions" \notin done
    /\ position["ball"] = Vec2(5, 0)
    /\ velocity["ball"] = Vec2(1, 0)
    /\ transform["right_paddle"] = Vec2(0, 0)

\* C10: each gutter has the Position and Shape computed at spawn from the
\* startup window W0 x H0 (x = 0, y = +/-(H0/2 - GUTTER_HEIGHT/2), shape =
\* (W0, GUTTER_HEIGHT)), and no step changes them, resizes included.
C10_GutterImmobility ==
    /\ position["top_gutter"] = Vec2(0, (window.height \div 2) - 10)
    /\ position["bottom_gutter"] = Vec2(0, -((window.height \div 2) - 10))
    /\ \A g \in Gutters : shape[g] = Vec2(window.width, 20)
    /\ [][\A g \in Gutters : position'[g] = position[g] /\ shape'[g] = shape[g]]_vars

\* A frame has ended in a window resized in both dimensions since startup,
\* with the Player paddle away from its spawn y.
C10_Witness ==
    /\ done = Systems
    /\ window.width # shape["top_gutter"].x
    /\ window.height # 2 * position["top_gutter"].y + 20
    /\ position["right_paddle"].y # 0

\* C11 (as amended): in the 800 x 600 window with Up held in every frame,
\* every move_paddles step raises the Player paddle's y by exactly 1 while
\* y < 254, and leaves it at 254 from then on (254 is the largest y strictly
\* below the bound 600/2 - 20 - 50/2 = 255); no other step changes y.  So y
\* never decreases, and once a tick leaves it unchanged every later one does.
C11_StaircaseThenFlat ==
    [][IF StepOf("move_paddles")
       THEN IF position["right_paddle"].y < 254
            THEN position'["right_paddle"].y = position["right_paddle"].y + 1
            ELSE position["right_paddle"].y = 254 /\ position'["right_paddle"].y = 254
       ELSE position'["right_paddle"].y = position["right_paddle"].y]_vars

\* The paddle stands at 254 after a move_paddles that found it there: the
\* ball, missed long ago, is more than 254 ticks from the origin.
C11_Witness ==
    /\ "move_paddles" \in done
    /\ position["right_paddle"].y = 254
    /\ velocity["right_paddle"].y = 1
    /\ position["ball"].x > 5 * 256

\* C11 (as stated): every move_paddles step raises y by 1 until y has
\* reached the computed legal bound 255, where it stays.
C11_ReachesBound ==
    [][StepOf("move_paddles") =>
        \/ position'["right_paddle"].y = position["right_paddle"].y + 1
        \/ /\ position'["right_paddle"].y = position["right_paddle"].y
           /\ position["right_paddle"].y = 255]_vars

\* Everything but the schedule's bookkeeping is left as it was.
WorldUnchanged ==
    UNCHANGED <<window, keyboard_input, ents, position, shape, velocity, transform>>

\* C12: with no Ball, move_ball and handle_collisions change no state; with
\* no Player paddle, handle_player_input changes no state; the other
\* systems of the frame still do their work: move_paddles moves every
\* existing paddle by its rule and project_positions copies every existing
\* entity's Position into its transform.
C12_MissingSingletonNoOp ==
    [][/\ ("ball" \notin ents /\ (StepOf("move_ball") \/ StepOf("handle_collisions")))
            => WorldUnchanged
       /\ (ents \cap Players = {} /\ StepOf("handle_player_input")) => WorldUnchanged
       /\ StepOf("move_paddles") =>
            \A p \in ents \cap Paddles :
                position'[p] =
                    (IF 2 * Abs(position[p].y + velocity[p].y) < Bound2(window.height)
                     THEN Vec2(position[p].x + velocity[p].x, position[p].y + velocity[p].y)
                     ELSE position[p])
       /\ StepOf("project_positions") => \A e \in ents : transform'[e] = position[e]]_vars

\* A frame has run to its end in a world without a Ball: the Player paddle
\* has moved and has been projected.
C12_Witness ==
    /\ "ball" \notin ents
    /\ done = Systems
    /\ position["right_paddle"].y # 0
    /\ transform["right_paddle"] = position["right_paddle"]
    /\ position["ball"] = Vec2(0, 0)

\* The ball's box lies entirely beyond the far edge of the right (left)
\* paddle and the ball moves away from the arena.
PassedRight ==
    /\ velocity["ball"].x > 0
    /\ 2 * position["ball"].x - shape["ball"].x
            >= 2 * position["right_paddle"].x + shape["right_paddle"].x

PassedLeft ==
    /\ velocity["ball"].x < 0
    /\ 2 * position["ball"].x + shape["ball"].x
            <= 2 * position["left_paddle"].x - shape["left_paddle"].x

\* C13: once the ball has passed a paddle, it has passed it in every later
\* state: no step changes its velocity, move_ball carries it 5 further out
\* and no other step moves it (it is never put back on the centre).
C13_NoRespawnOnMiss ==
    [][(PassedRight \/ PassedLeft) =>
        /\ PassedRight' = PassedRight
        /\ PassedLeft' = PassedLeft
        /\ velocity'["ball"] = velocity["ball"]
        /\ position'["ball"] =
            (IF StepOf("move_ball")
             THEN Vec2(position["ball"].x + 5 * velocity["ball"].x, position["ball"].y)
             ELSE position["ball"])]_vars

\* The ball has passed the right paddle and has been carried on since.
C13_Witness ==
    /\ PassedRight
    /\ "handle_collisions" \in done
    /\ position["ball"].x >= position["right_paddle"].x + 20

\* The entities whose contact with the ball handle_collisions responds to.
Responding ==
    {o \in ents \ Balls : Contact(o) \in {"Left", "Right", "Top", "Bottom"}}

NegatedTimes(v, n) == IF n % 2 = 1 THEN -v ELSE v

\* C15: handle_collisions responds to every overlapping entity, one after
\* the other: whatever the iteration order, velocity.x ends as the original
\* times (-1)^(number of Left/Right contacts) and velocity.y as the original
\* times (-1)^(number of Top/Bottom contacts).
C15_ResponsesCompose ==
    [][StepOf("handle_collisions") =>
        velocity'["ball"] =
            Vec2(NegatedTimes(velocity["ball"].x,
                    Cardinality({o \in Responding : Contact(o) \in {"Left", "Right"}})),
                 NegatedTimes(velocity["ball"].y,
                    Cardinality({o \in Responding : Contact(o) \in {"Top", "Bottom"}})))]_vars

\* The ball overlapped the right paddle from the left and the top gutter
\* from below, and handle_collisions has flipped both axes.
C15_Witness ==
    /\ "handle_collisions" \in done
    /\ Contact("right_paddle") = "Left"
    /\ Contact("top_gutter") = "Bottom"
    /\ velocity["ball"] = Vec2(-1, -1)

\* The ball overlapped the right paddle's top and the top gutter's bottom:
\* two contacts on the y axis, which cancel.
C15_WitnessCancel ==
    /\ "handle_collisions" \in done
    /\ Contact("right_paddle") = "Top"
    /\ Contact("top_gutter") = "Bottom"
    /\ velocity["ball"] = Vec2(1, 1)

\* The window height the gutters were placed for:
\* top_gutter_y = height / 2 - GUTTER_HEIGHT / 2.
StartupHeight == 2 * position["top_gutter"].y + GUTTER_HEIGHT

\* C16: with the window height changing between frames, no step moves or
\* reshapes a gutter, and move_paddles decides with the height the window
\* has in that frame: a paddle that moves ends strictly within that
\* height's bound and a paddle with vertical velocity that stays had its
\* candidate on or beyond that height's bound.
C16_CurrentHeightNotStartup ==
    [][/\ \A g \in Gutters : position'[g] = position[g] /\ shape'[g] = shape[g]
       /\ StepOf("move_paddles") =>
            \A p \in Paddles :
                /\ position'[p] # position[p] =>
                        2 * Abs(position'[p].y) < Bound2(window.height)
                /\ (position'[p] = position[p] /\ velocity[p].y # 0) =>
                        2 * Abs(position[p].y + velocity[p].y) >= Bound2(window.height)]_vars

\* After the window has grown, move_paddles has moved the Player paddle to
\* where its box overlaps the top gutter's box.
C16_Witness ==
    /\ window.height > StartupHeight
    /\ "move_paddles" \in done
    /\ velocity["right_paddle"].y = 1
    /\ 2 * position["right_paddle"].y + shape["right_paddle"].y
            > 2 * position["top_gutter"].y - shape["top_gutter"].y

\* After the window has shrunk, the Player paddle is stopped more than one
\* step short of the top gutter.
C16_WitnessShort ==
    /\ window.height < StartupHeight
    /\ "move_paddles" \in done
    /\ velocity["right_paddle"].y = 1
    /\ 2 * (position["right_paddle"].y + 1) >= Bound2(window.height)
    /\ 2 * (position["right_paddle"].y + 1) + shape["right_paddle"].y
            < 2 * position["top_gutter"].y - shape["top_gutter"].y

\* C17: from the default spawn the ball's velocity is (1, 0) or (-1, 0) in
\* every reachable state, the ball stays on y = 0, and it is in contact
\* with no gutter.
C17_BallStaysHorizontal ==
    /\ velocity["ball"] \in {Vec2(1, 0), Vec2(-1, 0)}
    /\ position["ball"].y = 0
    /\ \A g \in Gutters : Contact(g) = "None"

\* handle_collisions has responded to a contact on the Player paddle's top
\* or bottom edge, negating the zero vertical component.
C17_Witness ==
    /\ "handle_collisions" \in done
    /\ "move_paddles" \notin done
    /\ Contact("right_paddle") \in {"Top", "Bottom"}

\* C18: a reflection sends the ball away from the paddle: a Left response to
\* a paddle leaves the ball moving left, a Right response leaves it moving
\* right, and handle_collisions never gives a Left response to a ball moving
\* left or a Right response to a ball moving right (a ball that the paddle
\* has turned round already and that has overlapped it ever since).
C18_ReflectionSendsAway ==
    [][StepOf("handle_collisions") =>
        \A p \in Paddles \cap Responding :
            /\ Contact(p) = "Left" =>
                    velocity["ball"].x > 0 /\ velocity'["ball"].x < 0
            /\ Contact(p) = "Right" =>
                    velocity["ball"].x < 0 /\ velocity'["ball"].x > 0]_vars

\* The Player paddle has turned the ball round a second time without the
\* ball leaving it in between: the ball was moving left, inside the paddle,
\* and the Left response has sent it right again.
C18_Trapped ==
    /\ "handle_collisions" \in done
    /\ "move_paddles" \in done
    /\ done # Systems
    /\ Contact("right_paddle") = "Left"
    /\ velocity["ball"].x > 0
    /\ velocity["right_paddle"].y = 0

\* C19: with the window height fixed and a bound above 1, a tick whose keys
\* drive the Player paddle towards y = 0 (Down alone when y > 0, Up when
\* y < 0) moves it by exactly 1 towards the centre, and a tick in which the
\* keys drive the paddle but move_paddles leaves it where it is drives it
\* away from the centre.
C19_TowardCentreAlwaysApplied ==
    [][(StepOf("move_paddles") /\ Bound2(window.height) > 2) =>
        LET y == position["right_paddle"].y
            y_after == position'["right_paddle"].y
            up == "Up" \in keyboard_input
            down == "Up" \notin keyboard_input /\ "Down" \in keyboard_input
        IN  /\ (down /\ y > 0) => y_after = y - 1
            /\ (up /\ y < 0) => y_after = y + 1
            /\ ((up \/ down) /\ y_after = y) => ((up /\ y > 0) \/ (down /\ y < 0))]_vars

\* The Player paddle, having been stopped at the top of its range, has been
\* moved one step back towards the centre by a tick with Down held.
C19_Witness ==
    /\ "move_paddles" \in done
    /\ keyboard_input = {"Down"}
    /\ position["right_paddle"].y > 0
    /\ 2 * (position["right_paddle"].y + 2) >= Bound2(window.height)
    /\ 2 * (position["right_paddle"].y + 1) < Bound2(window.height)

====
